---- MODULE Spec2Model ----
(***************************************************************************)
(* Register access engine of the electrolyzer poller:                      *)
(*   - the decoder  TryFrom<(Vec<u16>, DataType)> for RegisterValue        *)
(*   - the catalog loader get_defs_from_json                               *)
(*   - ModbusDevice::read_input_registers (range coalescing + decode)      *)
(*   - the poll loop of main() with manage_modbus_error and the sinks      *)
(* Integers wider than 31 bits are kept as sequences of 16-bit limbs,      *)
(* most significant limb first.                                            *)
(***************************************************************************)
EXTENDS Integers, Sequences, FiniteSets, TLC

VARIABLES
    input_registers,  \* ModbusDevice.input_registers: name -> Register
    ctx,              \* ModbusDevice.ctx: generation of the transport handle
    lost,             \* environment: the connection behind ctx was dropped
    influx_db,        \* args.influx_db
    prometheus,       \* args.prometheus
    pc,               \* position of main(): poll, dumped, reconnect, influx, prometheus,
                      \* cycle_end, panicked
    last_err,         \* the error of the last failed dump of this cycle, or NoError
    reads,            \* transport reads issued by the last dump, in order
    register_vals,    \* result of the last successful dump
    retries,          \* attempts made by the running backoff::retry
    interval,         \* current backoff interval of the running backoff::retry (ms)
    overflowed,       \* a u16 operation of the last dump left the range 0..65535
    influx_sent,      \* the time-series sink accepted this cycle's values
    prom_sent,        \* the gauge sink received this cycle's values
    dec_raw,          \* decoder harness: the words given to try_from
    dec_kind,         \* decoder harness: the data type given to try_from
    dec_res,          \* decoder harness: what try_from returned
    dec_orig,         \* decoder harness: the value the words were encoded from
    registers_json,   \* loader harness: the raw definitions of the register file
    req_names,        \* read harness: the names given to read_input_registers_by_name
    req_env,          \* read harness: the build and the failing read of that call
    req_out           \* read harness: what the call did and returned

pollVars == <<input_registers, ctx, lost, influx_db, prometheus, pc, last_err,
              reads, register_vals, retries, interval, overflowed, influx_sent, prom_sent>>
decVars == <<dec_raw, dec_kind, dec_res, dec_orig>>
readVars == <<registers_json, req_names, req_env, req_out>>
harnessVars == <<dec_raw, dec_kind, dec_res, dec_orig,
                 registers_json, req_names, req_env, req_out>>
vars == <<input_registers, ctx, lost, influx_db, prometheus, pc, last_err,
          reads, register_vals, retries, interval, overflowed, influx_sent, prom_sent,
          dec_raw, dec_kind, dec_res, dec_orig,
          registers_json, req_names, req_env, req_out>>

(***************************************************************************)
(* Bounds of the model                                                     *)
(***************************************************************************)
\* raw word vectors of every content are enumerated up to this length
MaxFreeLen == 2
\* patterned raw word vectors are enumerated up to this length (Sized needs 33)
MaxRawLen == 34

U16Mod == 65536

(***************************************************************************)
(* Decoder: modbus_device.rs lines 62-147                                  *)
(***************************************************************************)
DataTypes == {"UInt16", "UInt32", "UInt64", "UInt128", "Int32", "Enum16",
              "Sized", "Float32", "Boolean"}

\* u16::to_be_bytes
ToBeBytes(w) == <<w \div 256, w % 256>>

\* raw.iter().map(|v| v.to_be_bytes()).flatten()
Flatten(raw) ==
    [i \in 1..(2 * Len(raw)) |-> ToBeBytes(raw[(i + 1) \div 2])[2 - (i % 2)]]

Rev(s) == [i \in 1..Len(s) |-> s[Len(s) + 1 - i]]

\* the mutated byte assembly: the bytes are not reversed
RawBytesNoRev(raw) == Flatten(raw)

\* raw_b: raw.iter().map(to_be_bytes).flatten().rev().collect()
RawBytes(raw) == Rev(Flatten(raw))

\* uN::from_le_bytes, the result as 16-bit limbs, most significant first
FromLeBytes(b) ==
    [j \in 1..(Len(b) \div 2) |-> b[Len(b) - 2 * j + 2] * 256 + b[Len(b) - 2 * j + 1]]

\* i32::from_le_bytes: two's complement reading of four bytes
I32FromLeBytes(b) ==
    LET u == FromLeBytes(b)
    IN  (IF u[1] >= 32768 THEN u[1] - U16Mod ELSE u[1]) * U16Mod + u[2]

\* the logical negation of a word taken as a flag: 1 for zero, 0 otherwise
LogicalNot16(w) == IF w = 0 THEN 1 ELSE 0

\* !w on a u16
BitNot16(w) == (U16Mod - 1) - w

Ok(kind, val) == [tag |-> "Ok", value |-> [kind |-> kind, val |-> val]]
DecodeErr == [tag |-> "Err"]
DecodePanic == [tag |-> "Panic"]

\* Vec<u8>::try_into::<[u8; n]>() followed by the variant constructor
IntoArray(raw_b, n, kind, val) == IF Len(raw_b) = n THEN Ok(kind, val) ELSE DecodeErr

\* impl TryFrom<(Vec<u16>, register::DataType)> for RegisterValue
TryFrom(raw, kind) ==
    LET raw_b == RawBytes(raw)
    IN  CASE kind = "UInt16"  -> IF Len(raw) = 0 THEN DecodePanic ELSE Ok("U16", raw[1])
          [] kind = "UInt32"  -> IntoArray(raw_b, 4, "U32", FromLeBytes(raw_b))
          [] kind = "UInt64"  -> IntoArray(raw_b, 8, "U64", FromLeBytes(raw_b))
          [] kind = "UInt128" -> IntoArray(raw_b, 16, "U128", FromLeBytes(raw_b))
          [] kind = "Int32"   -> IF Len(raw_b) = 4
                                 THEN Ok("S32", I32FromLeBytes(raw_b)) ELSE DecodeErr
          [] kind = "Enum16"  -> IF Len(raw) = 0 THEN DecodePanic ELSE Ok("Enum16", raw[1])
          [] kind = "Sized"   -> IntoArray(raw_b, 66, "Sized", raw_b)
          [] kind = "Float32" -> IntoArray(raw_b, 4, "Float32", FromLeBytes(raw_b))
          [] kind = "Boolean" -> IF Len(raw) = 0 THEN DecodePanic
                                 ELSE Ok("Boolean", BitNot16(raw[1]) = 0)

(***************************************************************************)
(* Catalog: modbus_device.rs lines 149-180                                 *)
(***************************************************************************)
\* number of raw definitions in the register file
MaxRegs == 3

RawReg(id, name, type_, len) == [id |-> id, name |-> name, type_ |-> type_, len |-> len]

\* the raw definitions the register file is drawn from (len is in bits)
RawPool == {
    RawReg(10, "a", "UInt32", 32),       \* [10,2)
    RawReg(12, "b", "UInt64", 48),       \* [12,3)  touches a, too short for its type
    RawReg(15, "c", "UInt16", 48),       \* [15,3)  touches b, gap after a
    RawReg(18, "big", "Sized", 2000),    \* [18,125) touches c
    RawReg(12, "z", "UInt16", 8),        \* [12,0)  under 16 bits, touches a
    RawReg(143, "t", "Boolean", 16),     \* [143,1) touches big
    RawReg(65535, "top", "Enum16", 16),  \* [65535,1) ends at the top of the address space
    RawReg(15, "a", "UInt64", 64),       \* [15,4)  a second definition named a
    RawReg(12, "f", "Float32", 32),      \* [12,2)  same address as b
    RawReg(65534, "hi", "UInt32", 32) }  \* [65534,2) ends at the top, just under top

RECURSIVE SeqsUpTo(_, _)
SeqsUpTo(S, n) ==
    IF n = 0 THEN {<<>>}
    ELSE LET shorter == SeqsUpTo(S, n - 1)
         IN  shorter \cup {Append(s, x) : s \in {t \in shorter : Len(t) = n - 1}, x \in S}

EmptyMap == [n \in {} |-> n]

\* an insert that keeps the entry a key already has
InsertKeepFirst(m, k, v) == [n \in DOMAIN m \cup {k} |-> IF n \in DOMAIN m THEN m[n] ELSE v]

\* HashMap::insert and HashMap::extend
Insert(m, k, v) == [n \in DOMAIN m \cup {k} |-> IF n = k THEN v ELSE m[n]]
Extend(m, m2) == [n \in DOMAIN m \cup DOMAIN m2 |-> IF n \in DOMAIN m2 THEN m2[n] ELSE m[n]]

\* the Register built from one RawRegister
ToRegister(f) ==
    [name |-> f.name, addr |-> f.id, len |-> f.len \div 16, data_type |-> f.type_]

RECURSIVE get_defs_from_json(_)
get_defs_from_json(registers) ==
    IF registers = <<>> THEN EmptyMap
    ELSE LET n == Len(registers)
             f == registers[n]
         IN  Insert(get_defs_from_json(SubSeq(registers, 1, n - 1)), f.name, ToRegister(f))

(***************************************************************************)
(* Transport: modbus_device.rs lines 186-202                               *)
(***************************************************************************)
\* the word the device holds at an address
DeviceWord(a) == IF a % 2 = 1 THEN U16Mod - 1 ELSE (a * 257) % U16Mod

\* Ok(res) of Context::read_input_registers: nb words from addr on
DeviceWords(addr, nb) == [k \in 1..nb |-> DeviceWord((addr + k - 1) % U16Mod)]

NoError == [variant |-> "None", kind |-> "None"]
\* the ModbusError values read_raw_input_registers returns
ReadErrors == {
    [variant |-> "Transport", kind |-> "BrokenPipe"],
    [variant |-> "Transport", kind |-> "ConnectionReset"],
    [variant |-> "Transport", kind |-> "TimedOut"],
    [variant |-> "Protocol", kind |-> "None"],
    [variant |-> "Exception", kind |-> "None"] }
\* the errors by which the transport signals that the connection was dropped
ConnectionLoss == {e \in ReadErrors :
                     e.variant = "Transport" /\ e.kind \in {"BrokenPipe", "ConnectionReset"}}

(***************************************************************************)
(* ModbusDevice::read_input_registers: modbus_device.rs lines 221-284      *)
(***************************************************************************)
MODBUS_MAX_READ_LEN == 125

\* a sort with the comparison turned round: highest address first
RECURSIVE SortByAddrDesc(_)
SortByAddrDesc(regs) ==
    IF regs = <<>> THEN <<>>
    ELSE LET n == Len(regs)
             r == regs[n]
             t == SortByAddrDesc(SubSeq(regs, 1, n - 1))
             k == Cardinality({i \in 1..Len(t) : t[i].addr >= r.addr})
         IN  SubSeq(t, 1, k) \o <<r>> \o SubSeq(t, k + 1, Len(t))

\* no sort at all: the registers stay in the order given
SortByAddrNone(regs) == regs

\* regs.sort_by_key(|s| s.addr): a stable sort
RECURSIVE SortByAddr(_)
SortByAddr(regs) ==
    IF regs = <<>> THEN <<>>
    ELSE LET n == Len(regs)
             r == regs[n]
             t == SortByAddr(SubSeq(regs, 1, n - 1))
             k == Cardinality({i \in 1..Len(t) : t[i].addr <= r.addr})
         IN  SubSeq(t, 1, k) \o <<r>> \o SubSeq(t, k + 1, Len(t))

Max(S) == CHOOSE x \in S : \A y \in S : y <= x

\* a closure that slices every register from the start of the buffer
DecodeMemberNoOffset(v, s_addr, read_regs, checked) ==
    IF v.len > Len(read_regs) THEN DecodePanic
    ELSE TryFrom(SubSeq(read_regs, 1, v.len), v.data_type)

\* the filter_map closure for one register v of the range (lines 257-271);
\* checked: the build panics on u16 overflow, otherwise it wraps
DecodeMember(v, s_addr, read_regs, checked) ==
    LET off_raw == v.addr - s_addr
        start_off == off_raw % U16Mod
        end_raw == start_off + v.len
        end_off == end_raw % U16Mod
        arith_panic == checked /\ (off_raw < 0 \/ end_raw >= U16Mod)
        slice_panic == start_off > end_off \/ end_off > Len(read_regs)
    IN  IF arith_panic \/ slice_panic THEN DecodePanic
        ELSE TryFrom(SubSeq(read_regs, start_off + 1, end_off), v.data_type)

\* v.addr - s_reg.addr or start_off + v.len leaves 0..65535
MemberOverflows(v, s_addr) ==
    v.addr - s_addr < 0 \/ ((v.addr - s_addr) % U16Mod) + v.len >= U16Mod

\* the loop of lines 234-281 from index i on (indices count from 0 as in the code).
\* acc: reads issued, result map, overflow flag; env: build, failing read, handle
RECURSIVE Scan(_, _, _, _, _, _)
Scan(regs, i, reg_range_start, reg_range_end, acc, env) ==
    IF i > Len(regs) - 1 THEN [acc EXCEPT !.status = "ok"]
    ELSE
    LET r == regs[i + 1]
        s_reg == regs[reg_range_start + 1]
        e_reg == regs[reg_range_end + 1]
        diff_raw == r.addr - s_reg.addr
        end_raw == e_reg.addr + e_reg.len
        c1 == diff_raw % U16Mod > MODBUS_MAX_READ_LEN
        c2 == r.addr # end_raw % U16Mod
        c3 == i = Len(regs) - 1
        cond_over == diff_raw < 0 \/ (~c1 /\ end_raw >= U16Mod)
        flush == c1 \/ c2 \/ c3
        nb_raw == (end_raw % U16Mod) - s_reg.addr
        nb == nb_raw % U16Mod
        body_over == end_raw >= U16Mod \/ nb_raw < 0
        members == [j \in 1..(reg_range_end - reg_range_start + 1) |->
                        regs[reg_range_start + j]]
        over == acc.overflow \/ cond_over \/ (flush /\ body_over)
                  \/ (flush /\ \E j \in DOMAIN members : MemberOverflows(members[j], s_reg.addr))
        k == Len(acc.reads) + 1
        read == [addr |-> s_reg.addr, nb |-> nb, ctx |-> env.ctx,
                 members |-> [j \in DOMAIN members |-> members[j].name],
                 ok |-> env.failAt # k]
        read_regs == DeviceWords(s_reg.addr, nb)
        decs == [j \in DOMAIN members |->
                    DecodeMember(members[j], s_reg.addr, read_regs, env.checked)]
        okIdx == {j \in DOMAIN members : decs[j].tag = "Ok"}
        read_regs_map == [n \in {members[j].name : j \in okIdx} |->
                            decs[Max({j \in okIdx : members[j].name = n})].value]
    IN  IF env.checked /\ (cond_over \/ (flush /\ body_over))
        THEN [acc EXCEPT !.status = "panic", !.overflow = TRUE]
        ELSE IF ~flush
        THEN Scan(regs, i + 1, reg_range_start, i, [acc EXCEPT !.overflow = over], env)
        ELSE IF env.failAt = k
        THEN [acc EXCEPT !.status = "err", !.reads = Append(acc.reads, read),
                         !.overflow = over]
        ELSE IF \E j \in DOMAIN members : decs[j].tag = "Panic"
        THEN [acc EXCEPT !.status = "panic", !.reads = Append(acc.reads, read),
                         !.overflow = over]
        ELSE Scan(regs, i + 1, i, i,
                  [acc EXCEPT !.reads = Append(acc.reads, read),
                              !.result = Extend(acc.result, read_regs_map),
                              !.overflow = over], env)

\* lines 228-283: the scan over the sorted registers
ReadSorted(sorted, env) ==
    Scan(sorted, 1, 0, 0,
         [reads |-> <<>>, result |-> EmptyMap, status |-> "run", overflow |-> FALSE], env)

read_input_registers(regs, env) == ReadSorted(SortByAddr(regs), env)

\* names.iter().filter_map(|n| self.input_registers.get(n)) (lines 208-217)
RECURSIVE Lookup(_, _)
Lookup(catalog, names) ==
    IF names = <<>> THEN <<>>
    ELSE LET rest == Lookup(catalog, Tail(names))
         IN  IF Head(names) \in DOMAIN catalog
             THEN <<catalog[Head(names)]>> \o rest ELSE rest

read_input_registers_by_name(catalog, names, env) ==
    read_input_registers(Lookup(catalog, names), env)

\* the orders in which HashMap::into_keys may yield the keys
KeyOrders(catalog) ==
    LET S == DOMAIN catalog
    IN  {s \in [1..Cardinality(S) -> S] : \A i, j \in DOMAIN s : i # j => s[i] # s[j]}

dump_input_registers(catalog, keys, env) == read_input_registers_by_name(catalog, keys, env)

\* the sorted register lists read_input_registers may work on during a dump: one per
\* order of the keys, the orders that sort to the same list taken together
DumpSorted(catalog) == {SortByAddr(Lookup(catalog, keys)) : keys \in KeyOrders(catalog)}

(***************************************************************************)
(* backoff::retry(ExponentialBackoff::default(), ..): main.rs 145, 268     *)
(***************************************************************************)
\* ExponentialBackoff::default(): first interval, and the cap of the interval (ms)
InitialInterval == 500
MaxInterval == 60000
\* attempts after which the backoff's max_elapsed_time is over and retry gives up
MaxRetries == 3
\* successful reconnections followed by the model
MaxReconnects == 2

Min(a, b) == IF a < b THEN a ELSE b
\* the interval grows by the multiplier 1.5 up to the cap
NextInterval(i) == Min((i * 3) \div 2, MaxInterval)

\* ModbusDevice::connect: the transport handle is replaced by a new one
Connect(c) == c + 1

(***************************************************************************)
(* Decoder harness                                                         *)
(***************************************************************************)
NoValue == [kind |-> "None", val |-> 0]
NoResult == [tag |-> "None"]

DecIdle ==
    /\ dec_raw = <<>>
    /\ dec_kind = "UInt16"
    /\ dec_res = NoResult
    /\ dec_orig = NoValue

(***************************************************************************)
(* Loader and read harness: idle values                                    *)
(***************************************************************************)
NoEnv == [checked |-> FALSE, failAt |-> 0, ctx |-> 0]
NoOutcome == [reads |-> <<>>, result |-> EmptyMap, status |-> "none", overflow |-> FALSE]

ReadIdle ==
    /\ registers_json = <<>>
    /\ req_names = <<>>
    /\ req_env = NoEnv
    /\ req_out = NoOutcome

(***************************************************************************)
(* main(): main.rs lines 172-312                                           *)
(***************************************************************************)
Init ==
    /\ \E registers \in SeqsUpTo(RawPool, MaxRegs) :
           input_registers = get_defs_from_json(registers)
    /\ ctx = 0
    /\ lost = FALSE
    /\ influx_db \in BOOLEAN
    /\ prometheus \in BOOLEAN
    /\ pc = "poll"
    /\ last_err = NoError
    /\ reads = <<>>
    /\ register_vals = EmptyMap
    /\ retries = 0
    /\ interval = InitialInterval
    /\ overflowed = FALSE
    /\ influx_sent = "none"
    /\ prom_sent = FALSE
    /\ DecIdle
    /\ ReadIdle

\* the end of one iteration of the loop: `continue`, or the closing brace of line 309
EndCycle == pc' = "cycle_end"

\* some u16 sum of read_input_registers can pass 65535 for this catalog: only then
\* does the build (overflow checks on or off) change what the call does
CanOverflow(catalog) == \E n \in DOMAIN catalog : catalog[n].addr + catalog[n].len >= U16Mod

\* line 245: electrolyzer.dump_input_registers()
Dump ==
    /\ pc = "poll"
    /\ \E sorted \in DumpSorted(input_registers),
          checked \in (IF CanOverflow(input_registers) THEN BOOLEAN ELSE {FALSE}),
          failAt \in 0..Cardinality(DOMAIN input_registers) :
         \E out \in {ReadSorted(sorted, [checked |-> checked, failAt |-> failAt,
                                         ctx |-> ctx])} :
           \E fail \in (IF failAt = 0 THEN {NoError} ELSE ReadErrors) :
             /\ failAt > 0 => out.status = "err"
             /\ (lost /\ out.reads # <<>>) => (failAt = 1 /\ fail \in ConnectionLoss)
             /\ pc' = IF out.status = "panic" THEN "panicked" ELSE "dumped"
             /\ last_err' = fail
             /\ reads' = out.reads
             /\ register_vals' = IF out.status = "ok" THEN out.result ELSE EmptyMap
             /\ overflowed' = out.overflow
             /\ lost' = (lost \/ fail \in ConnectionLoss)
    /\ UNCHANGED <<input_registers, ctx, influx_db, prometheus, retries, interval,
                   influx_sent, prom_sent>>
    /\ UNCHANGED harnessVars

\* a match that goes on to the sinks whatever the dump returned
ForwardValuesIgnoringError ==
    /\ pc = "dumped"
    /\ pc' = IF influx_db THEN "influx" ELSE IF prometheus THEN "prometheus" ELSE "cycle_end"
    /\ UNCHANGED <<input_registers, ctx, lost, influx_db, prometheus, last_err, reads,
                   register_vals, retries, interval, overflowed, influx_sent, prom_sent>>
    /\ UNCHANGED harnessVars

\* lines 246-247, 254-258, 300: Ok(vals), on to the enabled sinks
ForwardValues ==
    /\ pc = "dumped"
    /\ last_err = NoError
    /\ pc' = IF influx_db THEN "influx" ELSE IF prometheus THEN "prometheus" ELSE "cycle_end"
    /\ UNCHANGED <<input_registers, ctx, lost, influx_db, prometheus, last_err, reads,
                   register_vals, retries, interval, overflowed, influx_sent, prom_sent>>
    /\ UNCHANGED harnessVars

\* a match arm that takes every io error for a lost connection
IsAnyTransportError(err) == err.variant = "Transport"

\* the match of manage_modbus_error, lines 141-169
IsBrokenPipe(err) == err.variant = "Transport" /\ err.kind = "BrokenPipe"

\* lines 248-251 with manage_modbus_error, lines 137-170, up to the first connect
ManageModbusError ==
    /\ pc = "dumped"
    /\ last_err # NoError
    /\ IF IsBrokenPipe(last_err) THEN pc' = "reconnect" ELSE EndCycle
    /\ UNCHANGED <<input_registers, ctx, lost, influx_db, prometheus, last_err, reads,
                   register_vals, retries, interval, overflowed, influx_sent, prom_sent>>
    /\ UNCHANGED harnessVars

\* one attempt of the retried closure, lines 145-158: connect, else sleep and retry,
\* else (backoff over) unwrap() of the Err
ReconnectAttempt ==
    /\ pc = "reconnect"
    /\ \E connected \in BOOLEAN :
         IF connected
         THEN /\ ctx < MaxReconnects
              /\ ctx' = Connect(ctx)
              /\ lost' = FALSE
              /\ EndCycle
              /\ UNCHANGED <<retries, interval>>
         ELSE /\ UNCHANGED <<ctx, lost>>
              /\ IF retries >= MaxRetries
                 THEN /\ pc' = "panicked"
                      /\ UNCHANGED <<retries, interval>>
                 ELSE /\ pc' = pc
                      /\ retries' = retries + 1
                      /\ interval' = NextInterval(interval)
    /\ UNCHANGED <<input_registers, influx_db, prometheus, last_err, reads, register_vals,
                   overflowed, influx_sent, prom_sent>>
    /\ UNCHANGED harnessVars

\* the Err of the retried write query taken with unwrap(), as line 157 does
InfluxGiveUpUnwrap == pc' = "panicked"

\* lines 289-292: the Err arm of the retried write query, `continue`
InfluxGiveUp == EndCycle

\* one attempt of the retried write query, lines 268-293
InfluxAttempt ==
    /\ pc = "influx"
    /\ \E answer \in {"empty", "message", "error"} :
         IF answer = "error"
         THEN IF retries >= MaxRetries
              THEN /\ influx_sent' = "abandoned"
                   /\ InfluxGiveUp
                   /\ UNCHANGED <<retries, interval>>
              ELSE /\ pc' = pc
                   /\ retries' = retries + 1
                   /\ interval' = NextInterval(interval)
                   /\ UNCHANGED influx_sent
         ELSE /\ influx_sent' = IF answer = "empty" THEN "ok" ELSE "rejected"
              /\ pc' = IF prometheus THEN "prometheus" ELSE "cycle_end"
              /\ UNCHANGED <<retries, interval>>
    /\ UNCHANGED <<input_registers, ctx, lost, influx_db, prometheus, last_err, reads,
                   register_vals, overflowed, prom_sent>>
    /\ UNCHANGED harnessVars

\* lines 300-306: one gauge per register value
PrometheusPush ==
    /\ pc = "prometheus"
    /\ prom_sent' = TRUE
    /\ EndCycle
    /\ UNCHANGED <<input_registers, ctx, lost, influx_db, prometheus, last_err, reads,
                   register_vals, retries, interval, overflowed, influx_sent>>
    /\ UNCHANGED harnessVars

\* line 243: the next iteration; the locals of the last one are dropped
NextCycle ==
    /\ pc = "cycle_end"
    /\ pc' = "poll"
    /\ last_err' = NoError
    /\ reads' = <<>>
    /\ register_vals' = EmptyMap
    /\ retries' = 0
    /\ interval' = InitialInterval
    /\ overflowed' = FALSE
    /\ influx_sent' = "none"
    /\ prom_sent' = FALSE
    /\ UNCHANGED <<input_registers, ctx, lost, influx_db, prometheus>>
    /\ UNCHANGED harnessVars

Next ==
    \/ Dump
    \/ ForwardValues
    \/ ManageModbusError
    \/ ReconnectAttempt
    \/ InfluxAttempt
    \/ PrometheusPush
    \/ NextCycle

Spec == Init /\ [][Next]_vars

(***************************************************************************)
(* Decoder harness: try_from applied to bounded word vectors               *)
(***************************************************************************)
WordSamples == {0, 1, 258, 772, 32768, 65535}
PatternSeeds == {258, 32768, 65535}
Pattern(seed, n) == [i \in 1..n |-> (seed + (i - 1) * 4369) % U16Mod]

RawInputs ==
    SeqsUpTo(WordSamples, MaxFreeLen)
        \cup {Pattern(seed, n) : seed \in PatternSeeds, n \in 0..MaxRawLen}

MultiWordKinds == {"UInt32", "UInt64", "UInt128", "Int32", "Float32"}

\* the 16-bit limbs of a decoded multi-word value, most significant first
I32Limbs(v) == <<(v \div U16Mod) % U16Mod, v % U16Mod>>
Limbs(value) == IF value.kind = "S32" THEN I32Limbs(value.val) ELSE value.val

\* uN::to_le_bytes of a value given by its limbs
ToLeBytes(limbs) ==
    [i \in 1..(2 * Len(limbs)) |->
        LET limb == limbs[Len(limbs) - ((i - 1) \div 2)]
        IN  IF i % 2 = 1 THEN limb % 256 ELSE limb \div 256]

\* the inverse of the byte rule: little-endian bytes of the value, the whole
\* sequence reversed, each pair of bytes read as one big-endian word
EncodeInverse(value) ==
    LET be == Rev(ToLeBytes(Limbs(value)))
    IN  [i \in 1..(Len(be) \div 2) |-> be[2 * i - 1] * 256 + be[2 * i]]

I32Samples == {-2147483647 - 1, -65536, -1, 0, 1, 16909060, 2147483647}

ValuesOf(kind) ==
    CASE kind = "UInt32"  -> {[kind |-> "U32", val |-> l] : l \in {r \in RawInputs : Len(r) = 2}}
      [] kind = "Float32" -> {[kind |-> "Float32", val |-> l] : l \in {r \in RawInputs : Len(r) = 2}}
      [] kind = "UInt64"  -> {[kind |-> "U64", val |-> l] : l \in {r \in RawInputs : Len(r) = 4}}
      [] kind = "UInt128" -> {[kind |-> "U128", val |-> l] : l \in {r \in RawInputs : Len(r) = 8}}
      [] kind = "Int32"   -> {[kind |-> "S32", val |-> v] : v \in I32Samples}

PollIdle ==
    /\ input_registers = EmptyMap
    /\ ctx = 0
    /\ lost = FALSE
    /\ influx_db = FALSE
    /\ prometheus = FALSE
    /\ pc = "poll"
    /\ last_err = NoError
    /\ reads = <<>>
    /\ register_vals = EmptyMap
    /\ retries = 0
    /\ interval = InitialInterval
    /\ overflowed = FALSE
    /\ influx_sent = "none"
    /\ prom_sent = FALSE

\* the inputs of the decoder: words from the device, or a value to be encoded
DecodeInit ==
    /\ PollIdle
    /\ ReadIdle
    /\ dec_res = NoResult
    /\ \/ /\ dec_raw \in RawInputs
          /\ dec_kind \in DataTypes
          /\ dec_orig = NoValue
       \/ /\ dec_raw = <<>>
          /\ dec_kind \in MultiWordKinds
          /\ dec_orig \in ValuesOf(dec_kind)

\* try_from on words as they come from the device
DecodeWords ==
    /\ dec_res = NoResult
    /\ dec_orig.kind = "None"
    /\ dec_res' = TryFrom(dec_raw, dec_kind)
    /\ UNCHANGED <<dec_raw, dec_kind, dec_orig>>
    /\ UNCHANGED pollVars
    /\ UNCHANGED readVars

\* try_from on the words a value is encoded to
DecodeEncoded ==
    /\ dec_res = NoResult
    /\ dec_orig.kind # "None"
    /\ dec_raw' = EncodeInverse(dec_orig)
    /\ dec_res' = TryFrom(EncodeInverse(dec_orig), dec_kind)
    /\ UNCHANGED <<dec_kind, dec_orig>>
    /\ UNCHANGED pollVars
    /\ UNCHANGED readVars

DecodeNext == DecodeWords \/ DecodeEncoded

DecodeSpec == DecodeInit /\ [][DecodeNext]_vars

(***************************************************************************)
(* Loader harness: get_defs_from_json applied to bounded register files    *)
(***************************************************************************)
\* the loop of main is not running
LoopIdle ==
    /\ ctx = 0
    /\ lost = FALSE
    /\ influx_db = FALSE
    /\ prometheus = FALSE
    /\ last_err = NoError
    /\ reads = <<>>
    /\ register_vals = EmptyMap
    /\ retries = 0
    /\ interval = InitialInterval
    /\ overflowed = FALSE
    /\ influx_sent = "none"
    /\ prom_sent = FALSE

\* before line 205 of main: the register file is open, the catalog not built
LoadInit ==
    /\ LoopIdle
    /\ DecIdle
    /\ pc = "load"
    /\ input_registers = EmptyMap
    /\ registers_json \in SeqsUpTo(RawPool, MaxRegs)
    /\ req_names = <<>>
    /\ req_env = NoEnv
    /\ req_out = NoOutcome

\* main.rs line 205: input_registers: get_defs_from_json(file)
LoadDefs ==
    /\ pc = "load"
    /\ input_registers' = get_defs_from_json(registers_json)
    /\ pc' = "loaded"
    /\ UNCHANGED <<ctx, lost, influx_db, prometheus, last_err, reads, register_vals,
                   retries, interval, overflowed, influx_sent, prom_sent>>
    /\ UNCHANGED harnessVars

LoadSpec == LoadInit /\ [][LoadDefs]_vars

(***************************************************************************)
(* Read harness: read_input_registers_by_name on bounded lists of names    *)
(***************************************************************************)
\* longest list of names requested
MaxNames == 3

RECURSIVE SetToSeq(_)
SetToSeq(S) ==
    IF S = {} THEN <<>>
    ELSE LET x == CHOOSE y \in S : TRUE IN <<x>> \o SetToSeq(S \ {x})

\* two register files holding every definition of the pool, in opposite orders, so
\* that each definition of the repeated name is the one kept in one of them
RegisterFiles == {SetToSeq(RawPool), Rev(SetToSeq(RawPool))}

\* a name no register file defines
UnknownName == "nope"

\* the names a caller may ask for
NamePool == {f.name : f \in RawPool} \cup {UnknownName}

\* the registers of the catalog that a list of names asks for
Requested(catalog, names) ==
    [n \in {names[i] : i \in DOMAIN names} \cap DOMAIN catalog |-> catalog[n]]

ReadInit ==
    /\ LoopIdle
    /\ DecIdle
    /\ pc = "request"
    /\ \E file \in RegisterFiles : input_registers = get_defs_from_json(file)
    /\ registers_json = <<>>
    /\ req_names \in SeqsUpTo(NamePool, MaxNames)
    /\ req_env = NoEnv
    /\ req_out = NoOutcome

\* electrolyzer.read_input_registers_by_name(names), modbus_device.rs lines 204-219
ReadByName ==
    /\ pc = "request"
    /\ \E checked \in (IF CanOverflow(Requested(input_registers, req_names))
                       THEN BOOLEAN ELSE {FALSE}),
          failAt \in 0..Len(req_names) :
         \E out \in {read_input_registers_by_name(input_registers, req_names,
                        [checked |-> checked, failAt |-> failAt, ctx |-> ctx])} :
             /\ failAt > 0 => out.status = "err"
             /\ req_env' = [checked |-> checked, failAt |-> failAt, ctx |-> ctx]
             /\ req_out' = out
    /\ pc' = "returned"
    /\ UNCHANGED <<input_registers, ctx, lost, influx_db, prometheus, last_err, reads,
                   register_vals, retries, interval, overflowed, influx_sent, prom_sent>>
    /\ UNCHANGED decVars
    /\ UNCHANGED <<registers_json, req_names>>

ReadSpec == ReadInit /\ [][ReadByName]_vars

(***************************************************************************)
(* Claims about the decoder (checked under DecodeSpec)                     *)
(***************************************************************************)
\* the word count each data type requires
WordCount(kind) ==
    CASE kind \in {"UInt16", "Enum16", "Boolean"} -> 1
      [] kind \in {"UInt32", "Int32", "Float32"}  -> 2
      [] kind = "UInt64"                           -> 4
      [] kind = "UInt128"                          -> 8
      [] kind = "Sized"                            -> 33

\* C8: decode returns a decode error whenever the number of words differs from the
\* count the type requires, and a value only when the count matches.
C8_ErrorOnWordCountMismatch ==
    dec_res.tag # "None" =>
        /\ Len(dec_raw) # WordCount(dec_kind) => dec_res.tag = "Err"
        /\ Len(dec_raw) = WordCount(dec_kind) => dec_res.tag = "Ok"

\* C9: a multi-word numeric type decodes words w0..wk-1 to the integer whose most
\* significant 16 bits are w0 and whose least significant 16 bits are wk-1
\* ([0x0102, 0x0304] gives 0x01020304), and a value encoded with the inverse rule
\* decodes to itself.
C9_ByteRuleRoundTrip ==
    /\ (dec_kind \in MultiWordKinds /\ dec_res.tag = "Ok") =>
           Limbs(dec_res.value) = dec_raw
    /\ (dec_kind = "UInt32" /\ dec_raw = <<258, 772>> /\ dec_res.tag # "None") =>
           /\ dec_res.tag = "Ok"
           /\ dec_res.value.kind = "U32"
           /\ dec_res.value.val[1] * U16Mod + dec_res.value.val[2] = 16909060
    /\ (dec_orig.kind # "None" /\ dec_res.tag # "None") =>
           /\ dec_res.tag = "Ok"
           /\ dec_res.value = dec_orig

\* a 128-bit value has been encoded to eight words and decoded back
C9_Witness ==
    /\ dec_res.tag = "Ok"
    /\ dec_orig.kind = "U128"
    /\ dec_raw = Pattern(258, 8)
    /\ dec_res.value.val = Pattern(258, 8)

(***************************************************************************)
(* Claims about read_input_registers (checked under Spec)                  *)
(***************************************************************************)
\* the dump of this cycle returned Ok
DumpReturnedOk == pc = "dumped" /\ last_err = NoError

\* the places (read, position) at which a register name is a member of a read
Memberships(n) ==
    {<<k, j>> \in (DOMAIN reads) \X (1..MaxRegs + 1) :
        j \in DOMAIN reads[k].members /\ reads[k].members[j] = n}

AllMembers == {reads[k].members[j] : <<k, j>> \in
                  {p \in (DOMAIN reads) \X (1..MaxRegs + 1) : p[2] \in DOMAIN reads[p[1]].members}}

\* the [addr, len) spans of the catalog
Spans(catalog) == {<<catalog[n].addr, catalog[n].len>> : n \in DOMAIN catalog}

\* C1: every requested register is a member of exactly one read range, and the
\* ranges hold no other register.
C1_Coverage ==
    DumpReturnedOk =>
        /\ \A n \in DOMAIN input_registers : Cardinality(Memberships(n)) = 1
        /\ AllMembers = DOMAIN input_registers

\* C2: the pending batch is read once after the scan, so the register with the
\* highest address is in the last read; three contiguous registers give exactly
\* one read covering all three.
C2_FinalBatchFlush ==
    (DumpReturnedOk /\ DOMAIN input_registers # {}) =>
        /\ reads # <<>>
        /\ \E n \in DOMAIN input_registers :
              /\ \A m \in DOMAIN input_registers :
                    input_registers[m].addr <= input_registers[n].addr
              /\ \E j \in DOMAIN reads[Len(reads)].members :
                    reads[Len(reads)].members[j] = n
        /\ Spans(input_registers) = {<<10, 2>>, <<12, 3>>, <<15, 3>>} =>
              /\ Len(reads) = 1
              /\ reads[1].addr = 10
              /\ reads[1].nb = 8
              /\ Len(reads[1].members) = 3

\* C3: when every register is at most 125 words long, every read asks for at
\* most 125 words.
C3_SpanBound ==
    (\A n \in DOMAIN input_registers : input_registers[n].len <= MODBUS_MAX_READ_LEN) =>
        \A k \in DOMAIN reads : reads[k].nb <= MODBUS_MAX_READ_LEN

\* a word of a read that lies in no requested register
StrayWord(rd) ==
    \E w \in rd.addr..(rd.addr + rd.nb - 1) :
        \A n \in DOMAIN input_registers :
            ~(input_registers[n].addr <= w
                /\ w < input_registers[n].addr + input_registers[n].len)

\* C4: two touching registers are read in one range spanning both, two registers
\* with a gap in two ranges, one per register, and no range holds a word of no
\* requested register.
C4_ContiguityMerge ==
    DumpReturnedOk =>
        /\ (Cardinality(DOMAIN input_registers) = 2
              /\ Spans(input_registers) = {<<10, 2>>, <<12, 3>>}) =>
              /\ Len(reads) = 1
              /\ reads[1].addr = 10
              /\ reads[1].nb = 5
        /\ (Cardinality(DOMAIN input_registers) = 2
              /\ Spans(input_registers) = {<<10, 2>>, <<15, 3>>}) =>
              /\ Len(reads) = 2
              /\ reads[1].addr = 10 /\ reads[1].nb = 2
              /\ reads[2].addr = 15 /\ reads[2].nb = 3
        /\ \A k \in DOMAIN reads : ~StrayWord(reads[k])

\* every read of the last dump asked for at least one word
NoEmptyRead == \A k \in DOMAIN reads : reads[k].nb >= 1

\* C7: when no transport read failed (each of at least one word), the call returns;
\* the result holds exactly the registers whose word count fits their data type,
\* the others are omitted.
C7_DecodeFailureRecoverable ==
    (last_err = NoError /\ reads # <<>> /\ NoEmptyRead /\ ~overflowed) =>
        /\ pc # "panicked"
        /\ pc = "dumped" =>
              \A n \in AllMembers :
                  (n \in DOMAIN register_vals)
                      <=> (input_registers[n].len = WordCount(input_registers[n].data_type))

(***************************************************************************)
(* Claims about the poll loop (checked under Spec)                         *)
(***************************************************************************)
\* C5: a dump that fails with a connection-loss error puts the loop into
\* Reconnecting, which it leaves only to the next cycle, after a successful connect.
C5_ReconnectOnConnectionLoss ==
    [][/\ (pc = "dumped" /\ last_err \in ConnectionLoss) => pc' = "reconnect"
       /\ pc = "reconnect" => pc' \in {"reconnect", "cycle_end"}]_vars

\* C6: once the loop has started nothing terminates the process (the reads being
\* of at least one word each, and no u16 sum overflowing).
C6_LoopNeverTerminates == ~(pc = "panicked" /\ NoEmptyRead /\ ~overflowed)

\* C10: a cycle whose dump succeeded ends with the values pushed to every enabled
\* sink, whatever the other sink answered.
C10_ForwardToEverySink ==
    [][(pc \in {"dumped", "influx", "prometheus"} /\ last_err = NoError
          /\ pc' = "cycle_end") =>
          /\ influx_db => influx_sent' # "none"
          /\ prometheus => prom_sent']_vars


(***************************************************************************)
(* Sink failures and read errors of the poll loop                          *)
(***************************************************************************)
\* the write query of this step came back Err: it is neither delivered nor answered
InfluxPushFailed ==
    /\ pc = "influx"
    /\ influx_sent' \notin {"ok", "rejected"}

C12_OtherErrorsSkipTheCycle ==
    [][(last_err # NoError /\ last_err \notin ConnectionLoss /\ pc \in {"dumped", "cycle_end"}) =>
          /\ pc' = (IF pc = "dumped" THEN "cycle_end" ELSE "poll")
          /\ ctx' = ctx
          /\ influx_sent = "none" /\ influx_sent' = "none"
          /\ ~prom_sent /\ ~prom_sent'
          /\ retries = 0 /\ retries' = 0]_vars

\* a dump that timed out on its second read ended the cycle on the first handle
C12_Witness ==
    /\ pc = "cycle_end"
    /\ last_err = [variant |-> "Transport", kind |-> "TimedOut"]
    /\ Len(reads) = 2
    /\ ctx = 0
    /\ influx_db /\ prometheus
    /\ influx_sent = "none" /\ ~prom_sent


(***************************************************************************)
(* Claims about the order and the extent of the reads (checked under Spec) *)
(***************************************************************************)
\* the device addresses a read asks for, and those a register occupies
ReadWords(rd) == {(rd.addr + j) % U16Mod : j \in 0..(rd.nb - 1)}
RegWords(reg) == {(reg.addr + j) % U16Mod : j \in 0..(reg.len - 1)}

\* no device word belongs to two registers of the catalog
RegistersDisjoint(catalog) ==
    \A n, m \in DOMAIN catalog : n # m => RegWords(catalog[n]) \cap RegWords(catalog[m]) = {}

ReadsAscending == \A k, l \in DOMAIN reads : k < l => reads[k].addr <= reads[l].addr

ReadsDisjoint ==
    \A k, l \in DOMAIN reads : k < l => ReadWords(reads[k]) \cap ReadWords(reads[l]) = {}

\* C13 as stated: the reads of one call are issued in ascending order of start
\* address and no device word is covered by two of them, whatever the input, also
\* when two definitions declare the same or overlapping addresses
C13_AscendingDisjointRanges == ReadsAscending /\ ReadsDisjoint

\* C13 amended: the reads of one call are issued in ascending (not strictly) order
\* of start address for every input; no device word is covered by two of them when
\* no device word belongs to two of the requested registers
C13_AscendingAndDisjointWhenRegistersAre ==
    /\ ReadsAscending
    /\ RegistersDisjoint(input_registers) => ReadsDisjoint

\* two reads of a catalog of disjoint registers, the second further up
C13_Witness ==
    /\ pc = "dumped"
    /\ RegistersDisjoint(input_registers)
    /\ Len(reads) = 2
    /\ reads[1].addr < reads[2].addr
    /\ reads[1].nb > 0 /\ reads[2].nb > 0


(***************************************************************************)
(* Claims about read_input_registers_by_name (checked under ReadSpec)      *)
(***************************************************************************)
\* the orders in which the same names can be given
PermsOf(names) ==
    {[i \in DOMAIN names |-> names[p[i]]] :
        p \in {q \in [DOMAIN names -> DOMAIN names] :
                 \A i, j \in DOMAIN names : i # j => q[i] # q[j]}}

\* the reads of a call as ranges: start address, word count, set of members
RangeList(out) ==
    [k \in DOMAIN out.reads |->
        [addr |-> out.reads[k].addr, nb |-> out.reads[k].nb,
         members |-> {out.reads[k].members[j] : j \in DOMAIN out.reads[k].members}]]

\* the call gives the same ranges, in the same order, for every order of its names
SameRangesInEveryOrder ==
    \A names \in PermsOf(req_names) :
        RangeList(read_input_registers_by_name(input_registers, names, req_env))
            = RangeList(req_out)

\* no two of the definitions looked up for the call declare the same address
DistinctAddresses(regs) == \A i, j \in DOMAIN regs : i # j => regs[i].addr # regs[j].addr

\* C14 as stated: the ordered list of read ranges (start address, word count and
\* member set of each) depends only on the multiset of definitions given, not on
\* their order, also when two definitions share an address
C14_PlannerDeterminism == pc = "returned" => SameRangesInEveryOrder

\* C14 amended: the ordered list of read ranges depends only on the multiset of
\* definitions given, not on their order, when no two of them share an address
C14_DeterminismForDistinctAddresses ==
    (pc = "returned" /\ DistinctAddresses(Lookup(input_registers, req_names)))
        => SameRangesInEveryOrder

\* three registers at three addresses, not given in address order, read in two ranges
C14_Witness ==
    /\ pc = "returned"
    /\ Len(Lookup(input_registers, req_names)) = 3
    /\ DistinctAddresses(Lookup(input_registers, req_names))
    /\ Lookup(input_registers, req_names)[1].addr > Lookup(input_registers, req_names)[2].addr
    /\ Len(req_out.reads) = 2
    /\ req_out.status = "ok"


\* the words the device holds for a register decode to a value of its type
Decodable(reg) == TryFrom(DeviceWords(reg.addr, reg.len), reg.data_type).tag = "Ok"

\* the names of the request that the catalog does not hold
UnknownNames == {req_names[i] : i \in DOMAIN req_names} \ DOMAIN input_registers

\* C15: a call of read_input_registers_by_name whose list holds names absent from
\* the catalog returns Ok when no transport read fails; the mapping returned has no
\* key for the unknown names and has a value for every requested name that is in
\* the catalog and decodable
C15_UnknownNameTolerance ==
    (pc = "returned" /\ UnknownNames # {} /\ req_env.failAt = 0) =>
        /\ req_out.status = "ok"
        /\ DOMAIN req_out.result \cap UnknownNames = {}
        /\ \A n \in DOMAIN Requested(input_registers, req_names) :
               Decodable(input_registers[n]) => n \in DOMAIN req_out.result


(***************************************************************************)
(* Claims about the Boolean decode (checked under DecodeSpec)              *)
(***************************************************************************)
\* C16: a Boolean decodes to true exactly when the bitwise complement of the first
\* word is zero: true for 0xFFFF, false for every other first word, 0x0001 and
\* 0x0000 among them
C16_BooleanTrueOnlyForAllOnes ==
    (dec_kind = "Boolean" /\ dec_res.tag = "Ok") =>
        /\ dec_res.value.kind = "Boolean"
        /\ dec_res.value.val = (dec_raw[1] = 65535)
        /\ dec_raw[1] \in {0, 1} => dec_res.value.val = FALSE

\* the word 0x0001 decoded as a Boolean is false
C16_Witness ==
    /\ dec_kind = "Boolean"
    /\ dec_raw = <<1>>
    /\ dec_res.tag = "Ok"
    /\ dec_res.value.val = FALSE


(***************************************************************************)
(* Claims about get_defs_from_json (checked under LoadSpec)                *)
(***************************************************************************)
\* the place of the last definition of the register file that has the name n
LastIndexOf(n) == Max({i \in DOMAIN registers_json : registers_json[i].name = n})

\* C17: after a register file is loaded the catalog holds exactly one entry for
\* each distinct name of the file, and the entry of a name is built from the last
\* definition with that name: its address, its bit length divided by 16 (integer
\* division) as word length, its data type
C17_LastWriteWins ==
    pc = "loaded" =>
        /\ DOMAIN input_registers = {registers_json[i].name : i \in DOMAIN registers_json}
        /\ \A n \in DOMAIN input_registers :
               /\ input_registers[n].name = n
               /\ input_registers[n].addr = registers_json[LastIndexOf(n)].id
               /\ input_registers[n].len = registers_json[LastIndexOf(n)].len \div 16
               /\ input_registers[n].data_type = registers_json[LastIndexOf(n)].type_

\* a file that defines one name twice, at two addresses: the second one is kept
C17_Witness ==
    /\ pc = "loaded"
    /\ \E i, j \in DOMAIN registers_json :
          /\ i < j
          /\ registers_json[i].name = registers_json[j].name
          /\ registers_json[i].id # registers_json[j].id
          /\ LastIndexOf(registers_json[j].name) = j
          /\ input_registers[registers_json[j].name].addr = registers_json[j].id


(***************************************************************************)
(* Claims about the handle, the values and the length of the reads         *)
(* (checked under Spec)                                                    *)
(***************************************************************************)
\* C18: after a dump has failed with a connection-loss error, no transport read is
\* issued until a reconnect attempt has succeeded and replaced the handle; the
\* reads of the following cycles use the new handle
C18_NoReadOnLostConnection ==
    [][/\ (pc = "poll" /\ lost) => reads' = <<>>
       /\ (pc = "poll" /\ ~lost) => \A k \in DOMAIN reads' : reads'[k].ctx = ctx]_vars

\* C19: every entry name -> value of the mapping a dump returns is the decode, with
\* the declared type of the register of that name, of the device words at
\* [addr, addr + len) of that register: each register is sliced out of the buffer
\* of its range at its own offset, none is decoded from the words of another
C19_ValuePlacement ==
    DumpReturnedOk =>
        \A n \in DOMAIN register_vals :
            /\ n \in DOMAIN input_registers
            /\ Cardinality(Memberships(n)) = 1
            /\ LET reg == input_registers[n]
               IN  Ok(register_vals[n].kind, register_vals[n].val)
                      = TryFrom(DeviceWords(reg.addr, reg.len), reg.data_type)

\* a value decoded from the middle of a range: c is the second member of the read
\* that starts at b, and its value is the word at its own address
C19_Witness ==
    /\ DumpReturnedOk
    /\ \E k \in DOMAIN reads :
          /\ Len(reads[k].members) = 2
          /\ reads[k].members[2] \in DOMAIN register_vals
          /\ input_registers[reads[k].members[2]].addr > reads[k].addr
          /\ DeviceWord(input_registers[reads[k].members[2]].addr) # DeviceWord(reads[k].addr)

\* C20: every transport read issued by read_input_registers asks for at least one
\* word, whatever the catalog, also when it holds registers of a bit length under
\* 16 (word length 0)
C20_EveryReadHasAWord == \A k \in DOMAIN reads : reads[k].nb >= 1


(***************************************************************************)
(* Claims about a failing transport read (checked under Spec)              *)
(***************************************************************************)
\* C21: when the transport read of a range fails, read_input_registers returns the
\* error at once: the failed read is the last one issued (the ranges after it are
\* not read), the values decoded from the ranges before it are dropped with the
\* call, and no sink receives a value in that cycle
C21_AllOrNothingOnTransportFailure ==
    /\ (\E k \in DOMAIN reads : ~reads[k].ok) => last_err # NoError
    /\ last_err # NoError =>
          /\ reads # <<>>
          /\ \A k \in DOMAIN reads : reads[k].ok <=> k < Len(reads)
          /\ register_vals = EmptyMap
          /\ pc \in {"dumped", "reconnect", "cycle_end", "panicked"}
          /\ influx_sent = "none"
          /\ ~prom_sent

\* the second read of a dump failed after the first one had brought a decodable
\* register; the cycle is over, both sinks are enabled and got nothing
C21_Witness ==
    /\ pc = "cycle_end"
    /\ last_err # NoError
    /\ influx_db /\ prometheus
    /\ Len(reads) = 2
    /\ reads[1].ok /\ ~reads[2].ok
    /\ Decodable(input_registers[reads[1].members[1]])
    /\ register_vals = EmptyMap
    /\ influx_sent = "none" /\ ~prom_sent


(***************************************************************************)
(* Claims about the u16 arithmetic of read_input_registers (under Spec)    *)
(***************************************************************************)
\* C22: for every catalog of definitions with 16-bit addr and len, none of the
\* expressions r.addr - start.addr, end.addr + end.len,
\* end.addr + end.len - start.addr and start_off + v.len computed during a dump
\* leaves 0..65535, also when a register ends exactly at the top of the address
\* space (addr + len = 65536)
C22_AddressArithmeticWithin16Bits == ~overflowed

====
